---- MODULE Spec2Model ----
(***************************************************************************)
(* Model of the lineage classifier of varpipe (lineage_parser.py):         *)
(* parse_lineage reads a marker table and a sample's variant table,        *)
(* extracts lineage / sublineage evidence, resolves it to one verdict row  *)
(* and writes the verdict table and the evidence log.                      *)
(*                                                                         *)
(* Text.  A Python str is a sequence of chunks.  A chunk is a maximal run  *)
(* of letters and hyphens, or one single other character (a digit, a dot,  *)
(* a colon, a blank, a bracket).  Every text has exactly one such          *)
(* chunking, so equality of texts is equality of chunk sequences, and for  *)
(* texts made of digits and dots (positions, lineage labels) Len is the    *)
(* Python len.                                                             *)
(***************************************************************************)
EXTENDS Integers, Sequences, FiniteSets, TLC

VARIABLES
    marker_file,      \* the marker table on disk: [cols, rows]
    annotation_file,  \* the variant table on disk: [cols, rows]
    sample_id,        \* third argument of parse_lineage
    pc,               \* position of the run inside parse_lineage
    error,            \* exception that ended the run ("" while none)
    position_map,     \* dict Position -> marker row
    snp_data,         \* list of variant rows
    snps, tags, animals,
    tsv_report, text_report,
    sublin, prevlin, prevsub,
    split_first,
    discordance,      \* <<>> while unbound, <<b>> once assigned
    report_file,      \* lines of <sample_id>.lineage_report.txt, <<>> = not written
    lineage_file,     \* lines of <sample_id>_Lineage.txt, <<>> = not written
    written,          \* which of the two output files exist
    run,              \* number of the current run on these inputs
    prev_tsv, prev_text, \* reports of the previous run on the same inputs
    prev_error,       \* exception that ended the previous run ("" if none)
    kb_report,        \* lines written by create_lineage_report, <<>> = not run
    mls_result        \* <<>> until report_lineage_mlstype.parse_lineage returned

vars == <<marker_file, annotation_file, sample_id, pc, error, position_map,
          snp_data, snps, tags, animals, tsv_report, text_report, sublin,
          prevlin, prevsub, split_first, discordance, report_file,
          lineage_file, written, run, prev_tsv, prev_text, prev_error,
          kb_report, mls_result>>

-----------------------------------------------------------------------------
(* Bounds of the model *)

MaxVariants == 3      \* rows of the variant table
MaxColVariants == 2   \* rows of the variant table when columns may be missing
MaxRuns == 2          \* runs of the classifier on the same inputs

-----------------------------------------------------------------------------
(* Text primitives *)

SP == <<" ">>
DOT == "."

\* first index >= i of chunk sep in s, or Len(s) + 1
RECURSIVE FindFrom(_, _, _)
FindFrom(s, sep, i) ==
    IF i > Len(s) THEN Len(s) + 1
    ELSE IF s[i] = sep THEN i
    ELSE FindFrom(s, sep, i + 1)

\* str.split(sep) for a one-character separator: "" gives [""], "4." gives ["4", ""]
RECURSIVE Split(_, _)
Split(s, sep) ==
    LET k == FindFrom(s, sep, 1)
    IN  IF k > Len(s) THEN <<s>>
        ELSE <<SubSeq(s, 1, k - 1)>> \o Split(SubSeq(s, k + 1, Len(s)), sep)

\* max(seq, key=len): the first element of greatest length
RECURSIVE MaxByLen(_)
MaxByLen(seq) ==
    IF Len(seq) = 1 THEN seq[1]
    ELSE LET best == MaxByLen(SubSeq(seq, 1, Len(seq) - 1))
         IN  IF Len(seq[Len(seq)]) > Len(best) THEN seq[Len(seq)] ELSE best

Range(f) == {f[i] : i \in DOMAIN f}

-----------------------------------------------------------------------------
(* Static tables of lineage_parser.py *)

tribe_map ==
    (<<"1">> :> <<"Indo-Oceanic">>) @@
    (<<"2">> :> <<"East-Asian">>) @@
    (<<"3">> :> <<"East-African-Indian">>) @@
    (<<"4">> :> <<"Euro-American">>) @@
    (<<"5">> :> <<"West-Africa", " ", "1">>) @@
    (<<"6">> :> <<"West-Africa", " ", "2">>) @@
    (<<"7">> :> <<"Ethiopian">>)

\* insertion order of the dict animal_map
animal_order == <<"BCG", "BOV", "ORYX", "CAP">>

animal_map ==
    ("BCG"  :> <<<<"Bovis-BCG">>, <<"M", ".", " ", "bovis-BCG">>>>) @@
    ("BOV"  :> <<<<"Bovis">>,     <<"M", ".", " ", "bovis">>>>) @@
    ("ORYX" :> <<<<"Oryx">>,      <<"M", ".", " ", "orygis">>>>) @@
    ("CAP"  :> <<<<"Caprae">>,    <<"M", ".", " ", "caprae">>>>)

P931123  == <<"9", "3", "1", "1", "2", "3">>
P1759252 == <<"1", "7", "5", "9", "2", "5", "2">>
P2831482 == <<"2", "8", "3", "1", "4", "8", "2">>
P2289073 == <<"2", "2", "8", "9", "0", "7", "3">>
P8624    == <<"8", "6", "2", "4">>
P2726378 == <<"2", "7", "2", "6", "3", "7", "8">>

snp_tags ==
    (P931123  :> "linfour") @@
    (P1759252 :> "hrv37") @@
    (P2831482 :> "CAP") @@
    (P2289073 :> "BOV") @@
    (P8624    :> "BCG") @@
    (P2726378 :> "ORYX")

tag_snps == [t \in Range(snp_tags) |->
                CHOOSE p \in DOMAIN snp_tags : snp_tags[p] = t]

\* literal texts of the reports
MIXED == <<"mixed", " ", "lineage", "(", "s", ")">>
NO_INFORMATIVE == <<"No", " ", "Informative", " ", "SNPs", " ", "detected">>
NO_PRECISE == <<"no", " ", "precise", " ", "lineage", " ", "inferred">>
NO_CONCORDANCE ==
    <<"no", " ", "concordance", " ", "between", " ", "predicted", " ",
      "lineage", " ", "and", " ", "sublineage", "(", "s", ")">>
TSV_HEADER == <<<<"Sample", " ", "ID">>, <<"Lineage">>, <<"Lineage", " ", "Name">>>>
ABSENCE_931123 ==
    <<"Absence", " ", "of", " ", "SNP", " ">> \o P931123 \o
    <<" ", "suggests", " ", "lineage", " ", "4">>
ABSENCE_1759252 ==
    <<"Absence", " ", "of", " ", "SNP", " ">> \o P1759252 \o
    <<" ", "suggests", " ", "sublineage", " ", "4", ".", "9">>
LINEAGE_4 == <<"Lineage", ":", " ", "4", " ", "Euro-American">>

-----------------------------------------------------------------------------
(* Input tables.  A table file is its header (the set of column names) and *)
(* its data rows; csv.DictReader yields one dict per row, keyed by the     *)
(* header, so a column missing from the header is a key missing from every *)
(* row dict.                                                               *)

MarkerCols == {"Position", "##Lineage", "Alt"}
VariantCols == {"POS", "ALT"}

Marker(p, l, a) == ("Position" :> p) @@ ("##Lineage" :> l) @@ ("Alt" :> a)
Variant(p, a) == ("POS" :> p) @@ ("ALT" :> a)

A == <<"A">>
G == <<"G">>
P100 == <<"1", "0", "0">>
P200 == <<"2", "0", "0">>
P300 == <<"3", "0", "0">>
P400 == <<"4", "0", "0">>
P500 == <<"5", "0", "0">>
P600 == <<"6", "0", "0">>
P700 == <<"7", "0", "0">>

\* a reference panel: lineage markers, sublineage markers, a label outside
\* 1-7, a two-digit label, and the two unlabeled absence markers
Panel ==
    << Marker(P100, <<"4">>, A),
       Marker(P200, <<"2">>, A),
       Marker(P300, <<"4", ".", "3", ".", "1">>, A),
       Marker(P400, <<"4", ".", "3", ".", "2">>, A),
       Marker(P500, <<"4", ".", "2", ".", "1">>, A),
       Marker(P600, <<"8">>, A),
       Marker(P700, <<"1", "0">>, A),
       Marker(P931123, <<>>, A),
       Marker(P1759252, <<>>, A) >>

\* the same panel followed by rows that repeat some of its positions with
\* another label or allele
PanelDup ==
    Panel \o << Marker(P100, <<"2">>, G),
                Marker(P300, <<"2", ".", "2">>, A),
                Marker(P600, <<"8", ".", "1">>, A),
                Marker(P931123, <<"1", "0", "0">>, A) >>

MarkerTables == {<<>>, Panel, PanelDup}

VariantRows ==
    {Variant(p, A) : p \in {P100, P200, P300, P400, P500, P600, P700,
                            P931123, P1759252, P8624, P2289073, P2831482,
                            P2726378}}
    \cup {Variant(P100, G), Variant(P931123, G), Variant(P1759252, G)}

SeqsUpTo(S, n) == UNION {[1..k -> S] : k \in 0..n}

SampleIds == {<<"S", "1">>}

\* what csv.DictReader yields for a table file
DictRows(file) ==
    [i \in DOMAIN file.rows |-> [c \in file.cols |-> file.rows[i][c]]]

-----------------------------------------------------------------------------
(* Closures of parse_lineage.  They read the enclosing function's          *)
(* variables; a value computed earlier in the same step is a parameter.    *)

\* PositionMap that keeps the first row of a repeated Position
PositionMapFirst(rows) ==
    [p \in {rows[i]["Position"] : i \in DOMAIN rows} |->
        rows[CHOOSE i \in DOMAIN rows :
                /\ rows[i]["Position"] = p
                /\ \A j \in DOMAIN rows : rows[j]["Position"] = p => j >= i]]

\* line 144: dict comprehension over the marker rows, the last row of a
\* repeated Position replaces the earlier ones
PositionMap(rows) ==
    [p \in {rows[i]["Position"] : i \in DOMAIN rows} |->
        rows[CHOOSE i \in DOMAIN rows :
                /\ rows[i]["Position"] = p
                /\ \A j \in DOMAIN rows : rows[j]["Position"] = p => j <= i]]

\* TagsOf that stops at the first tag it meets
RECURSIVE TagsOfFirst(_)
TagsOfFirst(order) ==
    IF order = <<>> THEN {}
    ELSE IF Head(order) \in DOMAIN snp_tags THEN {snp_tags[Head(order)]}
    ELSE TagsOfFirst(Tail(order))

\* line 150: the set comprehension over snps, iterated in the order `order`
RECURSIVE TagsOf(_)
TagsOf(order) ==
    IF order = <<>> THEN {}
    ELSE (IF Head(order) \in DOMAIN snp_tags THEN {snp_tags[Head(order)]} ELSE {})
         \cup TagsOf(Tail(order))

\* the orders in which a set can be iterated
Orders(S) == {o \in [1..Cardinality(S) -> S] : Range(o) = S}

\* AnimalLines that lists the tags in the reverse of the animal_map order
RECURSIVE AnimalLinesReversed(_, _)
AnimalLinesReversed(tgs, i) ==
    IF i > Len(animal_order) THEN <<>>
    ELSE AnimalLinesReversed(tgs, i + 1) \o
         (IF animal_order[i] \in tgs
          THEN << <<"SNP", " ">> \o tag_snps[animal_order[i]] \o
                  <<" ", "suggests", " ">> \o animal_map[animal_order[i]][2] >>
          ELSE <<>>)

\* lines 156-158: one line per animal tag present, in animal_map order
RECURSIVE AnimalLines(_, _)
AnimalLines(tgs, i) ==
    IF i > Len(animal_order) THEN <<>>
    ELSE (IF animal_order[i] \in tgs
          THEN << <<"SNP", " ">> \o tag_snps[animal_order[i]] \o
                  <<" ", "suggests", " ">> \o animal_map[animal_order[i]][2] >>
          ELSE <<>>)
         \o AnimalLines(tgs, i + 1)

\* DetailStep without the comparison of the alleles
DetailStepAnyAllele(acc, snp) ==
    IF acc.err # "" THEN acc
    ELSE IF snp["POS"] \notin DOMAIN position_map THEN acc
    ELSE LET lineage == position_map[snp["POS"]]["##Lineage"]
         IN  IF Len(lineage) > 1
             THEN [acc EXCEPT
                     !.prevsub = Append(@, lineage),
                     !.sublin = MaxByLen(Append(acc.prevsub, lineage)),
                     !.text = Append(@,
                         <<"SNP", " ">> \o snp["POS"] \o
                         <<" ", "suggests", " ", "sub-lineage", ":", " ">>
                         \o lineage)]
             ELSE [acc EXCEPT
                     !.prevlin = Append(@, lineage),
                     !.text = Append(@,
                         <<"SNP", " ">> \o snp["POS"] \o
                         <<" ", "suggests", " ", "lineage", ":", " ">>
                         \o lineage)]

\* lines 44-60: the body of the loop of _get_lineage_detail for one row
DetailStep(acc, snp) ==
    IF acc.err # "" THEN acc
    ELSE IF "POS" \notin DOMAIN snp THEN [acc EXCEPT !.err = "KeyError"]
    ELSE IF snp["POS"] \notin DOMAIN position_map THEN acc
    ELSE LET marker == position_map[snp["POS"]]
         IN  IF "##Lineage" \notin DOMAIN marker \/ "Alt" \notin DOMAIN marker
                \/ "ALT" \notin DOMAIN snp
             THEN [acc EXCEPT !.err = "KeyError"]
             ELSE LET lineage == marker["##Lineage"]
                      alt == marker["Alt"]
                  IN  IF alt # snp["ALT"] THEN acc
                      ELSE IF Len(lineage) > 1
                      THEN [acc EXCEPT
                              !.prevsub = Append(@, lineage),
                              !.sublin = MaxByLen(Append(acc.prevsub, lineage)),
                              !.text = Append(@,
                                  <<"SNP", " ">> \o snp["POS"] \o
                                  <<" ", "suggests", " ", "sub-lineage", ":", " ">>
                                  \o lineage)]
                      ELSE [acc EXCEPT
                              !.prevlin = Append(@, lineage),
                              !.text = Append(@,
                                  <<"SNP", " ">> \o snp["POS"] \o
                                  <<" ", "suggests", " ", "lineage", ":", " ">>
                                  \o lineage)]

\* lines 41-61
RECURSIVE DetailLoop(_, _)
DetailLoop(acc, i) ==
    IF i > Len(snp_data) THEN acc
    ELSE DetailLoop(DetailStep(acc, snp_data[i]), i + 1)

_get_lineage_detail ==
    DetailLoop([sublin |-> <<>>, prevlin |-> <<>>, prevsub |-> <<>>,
                text |-> text_report, err |-> ""], 1)

\* DiscordanceLoop that compares the top-level component only
RECURSIVE DiscordanceLoopTop(_, _, _)
DiscordanceLoopTop(cand, subs, i) ==
    IF i > Len(subs) THEN "False"
    ELSE IF Split(subs[i], DOT)[1] # cand[1] THEN "True"
    ELSE DiscordanceLoopTop(cand, subs, i + 1)

\* lines 66-70: the loop of _check_discordance from the i-th label on, for
\* the candidate split into cand; "IndexError" when a compared label has
\* no second component
RECURSIVE DiscordanceLoop(_, _, _)
DiscordanceLoop(cand, subs, i) ==
    IF i > Len(subs) THEN "False"
    ELSE LET split_lin == Split(subs[i], DOT)
         IN  IF split_lin[1] # cand[1] THEN "True"
             ELSE IF Len(split_lin) < 2 \/ Len(cand) < 2 THEN "IndexError"
             ELSE IF split_lin[2] # cand[2] THEN "True"
             ELSE DiscordanceLoop(cand, subs, i + 1)

\* _check_discordance that compares the candidate with prevsub[0] only
_check_discordance_first_only ==
    LET first == Split(sublin, DOT)
        d == DiscordanceLoop(first,
                 IF prevsub = <<>> THEN <<>> ELSE <<prevsub[1]>>, 1)
    IN  [err |-> IF d = "IndexError" THEN d ELSE "",
         discordance |-> d = "True",
         split_first |-> first]

\* lines 63-71
_check_discordance ==
    LET first == Split(sublin, DOT)
        d == DiscordanceLoop(first, prevsub, 1)
    IN  [err |-> IF d = "IndexError" THEN d ELSE "",
         discordance |-> d = "True",
         split_first |-> first]

\* _check_sublin_discordance without the comparison against prevlin[0]
_check_sublin_discordance_first(first) ==
    \E i \in DOMAIN prevsub : Split(prevsub[i], DOT)[1] # first[1]

\* lines 73-80
_check_sublin_discordance(first) ==
    \E i \in DOMAIN prevsub :
        LET split_lin == Split(prevsub[i], DOT)
        IN  split_lin[1] # prevlin[1] \/ split_lin[1] # first[1]

\* _check_multiple_discordance with all() in the place of any()
_check_multiple_discordance_all ==
    \A i \in DOMAIN prevlin : prevlin[1] # prevlin[i]

\* lines 82-86
_check_multiple_discordance ==
    \E i \in DOMAIN prevlin : prevlin[1] # prevlin[i]

Report(text, tsv) == [err |-> "", text |-> text, tsv |-> tsv]
Raise(e) == [err |-> e, text |-> text_report, tsv |-> tsv_report]

\* lines 88-90
_report_mixed_lineage ==
    Report(Append(text_report, NO_PRECISE),
           Append(tsv_report, <<sample_id, MIXED, MIXED>>))

\* lines 92-97
_report_tribe(tribe, disc, first) ==
    IF disc \/ animals THEN _report_mixed_lineage
    ELSE IF tribe \notin DOMAIN tribe_map THEN Raise("KeyError")
    ELSE Report(Append(text_report,
                    <<"Lineage", ":", " ">> \o tribe \o SP \o tribe_map[tribe]),
                Append(tsv_report, <<sample_id, first[1], tribe_map[tribe]>>))

\* _report_linfour with the test of animals negated
_report_linfour_not_animals ==
    IF ~animals THEN _report_mixed_lineage
    ELSE Report(text_report \o <<ABSENCE_931123>> \o
                    (IF "hrv37" \notin tags THEN <<ABSENCE_1759252>> ELSE <<>>)
                    \o <<LINEAGE_4>>,
                Append(tsv_report, <<sample_id, <<"4">>, <<"Euro-American">>>>))

\* _report_linfour with the test of hrv37 negated
_report_linfour_hrv37 ==
    IF animals THEN _report_mixed_lineage
    ELSE Report(text_report \o <<ABSENCE_931123>> \o
                    (IF "hrv37" \in tags THEN <<ABSENCE_1759252>> ELSE <<>>)
                    \o <<LINEAGE_4>>,
                Append(tsv_report, <<sample_id, <<"4">>, <<"Euro-American">>>>))

\* lines 99-109
_report_linfour ==
    IF animals THEN _report_mixed_lineage
    ELSE Report(text_report \o <<ABSENCE_931123>> \o
                    (IF "hrv37" \notin tags THEN <<ABSENCE_1759252>> ELSE <<>>)
                    \o <<LINEAGE_4>>,
                Append(tsv_report, <<sample_id, <<"4">>, <<"Euro-American">>>>))

\* FirstAnimal that keeps the last tag of animal_map that is present
RECURSIVE LastAnimal(_)
LastAnimal(i) ==
    IF i > Len(animal_order) THEN ""
    ELSE IF LastAnimal(i + 1) # "" THEN LastAnimal(i + 1)
    ELSE IF animal_order[i] \in tags THEN animal_order[i]
    ELSE ""

\* lines 112-116: the first tag of animal_map, from the i-th on, that is present
RECURSIVE FirstAnimal(_)
FirstAnimal(i) ==
    IF i > Len(animal_order) THEN ""
    ELSE IF animal_order[i] \in tags THEN animal_order[i]
    ELSE FirstAnimal(i + 1)

\* lines 111-125
_report_animals ==
    LET tag == FirstAnimal(1)
    IN  IF tag # ""
        THEN Report(Append(text_report, <<"Lineage", ":", " ">> \o animal_map[tag][1]),
                    Append(tsv_report,
                           <<sample_id, animal_map[tag][1], animal_map[tag][2]>>))
        ELSE Report(Append(text_report, NO_INFORMATIVE),
                    Append(tsv_report,
                           <<sample_id, NO_INFORMATIVE, NO_INFORMATIVE>>))

\* lines 127-129
_report_prevlin ==
    IF prevlin[1] \notin DOMAIN tribe_map THEN Raise("KeyError")
    ELSE Report(Append(text_report,
                    <<"Lineage", ":", " ">> \o prevlin[1] \o SP \o tribe_map[prevlin[1]]),
                Append(tsv_report, <<sample_id, prevlin[1], tribe_map[prevlin[1]]>>))

\* lines 131-140
_report_multiple_prevlin(disc) ==
    IF disc
    THEN Report(Append(text_report, NO_CONCORDANCE),
                Append(tsv_report, <<sample_id, MIXED, MIXED>>))
    ELSE _report_prevlin

\* lines 161-178: the dispatch of the resolver; the outcome of the reporting
\* branch together with the locals the branch assigned
Resolver ==
    LET first0 == IF prevsub # <<>> /\ sublin # <<>>
                  THEN Split(sublin, DOT) ELSE << <<"NA">> >>
    IN  IF prevlin = <<>>
        THEN LET c == _check_discordance
             IN  IF c.err # ""
                 THEN [out |-> Raise(c.err), disc |-> <<>>, first |-> first0]
                 ELSE [out |-> IF Len(c.split_first) > 1
                               THEN _report_tribe(c.split_first[1], c.discordance,
                                                  c.split_first)
                               ELSE IF "linfour" \notin tags THEN _report_linfour
                               ELSE _report_animals,
                       disc |-> <<c.discordance>>,
                       first |-> c.split_first]
        ELSE IF Len(prevlin) = 1
        THEN IF sublin # <<>>
             THEN LET d == _check_sublin_discordance(first0)
                  IN  [out |-> _report_tribe(prevlin[1], d, first0),
                       disc |-> <<d>>, first |-> first0]
             ELSE [out |-> _report_prevlin, disc |-> <<>>, first |-> first0]
        ELSE LET d == _check_multiple_discordance
             IN  [out |-> _report_multiple_prevlin(d),
                  disc |-> <<d>>, first |-> first0]

\* csv.writer, dialect excel-tab: the cells of a row joined by a tab (no
\* cell of the reports holds a tab, a quote or a line break)
RECURSIVE JoinTab(_)
JoinTab(row) ==
    IF Len(row) = 0 THEN <<>>
    ELSE IF Len(row) = 1 THEN row[1]
    ELSE row[1] \o <<"\t">> \o JoinTab(Tail(row))

\* print("\n".join(lines)): the lines of the file written
JoinLines(lines) == IF lines = <<>> THEN << <<>> >> ELSE lines

-----------------------------------------------------------------------------
(* The run of parse_lineage *)

NoMap == PositionMap(<<>>)

\* the locals of parse_lineage before the first statement
Fresh ==
    /\ pc = "start"
    /\ error = ""
    /\ position_map = NoMap
    /\ snp_data = <<>>
    /\ snps = {}
    /\ tags = {}
    /\ animals = FALSE
    /\ tsv_report = <<>>
    /\ text_report = <<>>
    /\ sublin = <<>>
    /\ prevlin = <<>>
    /\ prevsub = <<>>
    /\ split_first = <<>>
    /\ discordance = <<>>

InitWith(mcols, vcols, n) ==
    /\ \E mt \in MarkerTables, c \in mcols :
          marker_file = [cols |-> c, rows |-> mt]
    /\ \E vt \in SeqsUpTo(VariantRows, n), c \in vcols :
          annotation_file = [cols |-> c, rows |-> vt]
    /\ sample_id \in SampleIds
    /\ Fresh
    /\ report_file = <<>>
    /\ lineage_file = <<>>
    /\ written = {}
    /\ run = 1
    /\ prev_tsv = <<>>
    /\ prev_text = <<>>
    /\ prev_error = ""
    /\ kb_report = <<>>
    /\ mls_result = <<>>

\* both tables carry their required columns
Init == InitWith({MarkerCols}, {VariantCols}, MaxVariants)

\* a required column may be missing from either table
InitCols ==
    InitWith({MarkerCols} \cup {MarkerCols \ {c} : c \in MarkerCols},
             {VariantCols} \cup {VariantCols \ {c} : c \in VariantCols},
             MaxColVariants)

\* both tables carry their required columns, short variant tables
InitRerun == InitWith({MarkerCols}, {VariantCols}, MaxColVariants)

\* sample ids of the pipeline runs; the second is the header's first cell
PipelineSampleIds == {<<"S", "1">>, <<"Sample", " ", "ID">>}

\* the classifier is the first step of a pipeline run
InitPipeline ==
    /\ \E mt \in MarkerTables :
          marker_file = [cols |-> MarkerCols, rows |-> mt]
    /\ \E vt \in SeqsUpTo(VariantRows, MaxColVariants) :
          annotation_file = [cols |-> VariantCols, rows |-> vt]
    /\ sample_id \in PipelineSampleIds
    /\ Fresh
    /\ report_file = <<>>
    /\ lineage_file = <<>>
    /\ written = {}
    /\ run = 1
    /\ prev_tsv = <<>>
    /\ prev_text = <<>>
    /\ prev_error = ""
    /\ kb_report = <<>>
    /\ mls_result = <<>>

Fail(e) ==
    /\ pc' = "failed"
    /\ error' = e

inputs == <<marker_file, annotation_file, sample_id, run, prev_tsv, prev_text,
            prev_error>>
downstream == <<kb_report, mls_result>>
files == <<report_file, lineage_file, written>>
evidence == <<sublin, prevlin, prevsub>>

\* lines 142-147
LoadTables ==
    /\ pc = "start"
    /\ LET markers == DictRows(marker_file)
       IN  IF markers # <<>> /\ "Position" \notin marker_file.cols
           THEN /\ Fail("KeyError")
                /\ UNCHANGED <<position_map, snp_data>>
           ELSE /\ position_map' = PositionMap(markers)
                /\ snp_data' = DictRows(annotation_file)
                /\ pc' = "loaded"
                /\ UNCHANGED error
    /\ UNCHANGED <<inputs, downstream, files, evidence, snps, tags, animals,
                   tsv_report, text_report, split_first, discordance>>

\* lines 149-158
ScanTags ==
    /\ pc = "loaded"
    /\ IF snp_data # <<>> /\ "POS" \notin annotation_file.cols
       THEN /\ Fail("KeyError")
            /\ UNCHANGED <<snps, tags, animals, tsv_report, text_report>>
       ELSE LET s == {snp_data[i]["POS"] : i \in DOMAIN snp_data}
            IN  \E order \in Orders(s) :
                  /\ snps' = s
                  /\ tags' = TagsOf(order)
                  /\ animals' = (\E i \in DOMAIN animal_order :
                                    animal_order[i] \in TagsOf(order))
                  /\ tsv_report' = <<TSV_HEADER>>
                  /\ text_report' = AnimalLines(TagsOf(order), 1)
                  /\ pc' = "scanned"
                  /\ UNCHANGED error
    /\ UNCHANGED <<inputs, downstream, files, evidence, position_map,
                   snp_data, split_first, discordance>>

\* line 160
GetLineageDetail ==
    /\ pc = "scanned"
    /\ LET r == _get_lineage_detail
       IN  IF r.err # ""
           THEN /\ Fail(r.err)
                /\ UNCHANGED <<evidence, text_report>>
           ELSE /\ sublin' = r.sublin
                /\ prevlin' = r.prevlin
                /\ prevsub' = r.prevsub
                /\ text_report' = r.text
                /\ pc' = "extracted"
                /\ UNCHANGED error
    /\ UNCHANGED <<inputs, downstream, files, position_map, snp_data, snps,
                   tags, animals, tsv_report, split_first, discordance>>

\* lines 161-178
Resolve ==
    /\ pc = "extracted"
    /\ LET r == Resolver
       IN  /\ split_first' = r.first
           /\ discordance' = r.disc
           /\ IF r.out.err # ""
              THEN /\ Fail(r.out.err)
                   /\ UNCHANGED <<tsv_report, text_report>>
              ELSE /\ tsv_report' = r.out.tsv
                   /\ text_report' = r.out.text
                   /\ pc' = "resolved"
                   /\ UNCHANGED error
    /\ UNCHANGED <<inputs, downstream, files, evidence, position_map,
                   snp_data, snps, tags, animals>>

\* lines 181-183
WriteReport ==
    /\ pc = "resolved"
    /\ report_file' = [i \in DOMAIN tsv_report |-> JoinTab(tsv_report[i])]
    /\ written' = written \cup {"lineage_report.txt"}
    /\ pc' = "report_written"
    /\ UNCHANGED <<inputs, downstream, evidence, error, position_map,
                   snp_data, snps, tags, animals, tsv_report, text_report,
                   split_first, discordance, lineage_file>>

\* lines 185-186
WriteLineage ==
    /\ pc = "report_written"
    /\ lineage_file' = JoinLines(text_report)
    /\ written' = written \cup {"Lineage.txt"}
    /\ pc' = "done"
    /\ UNCHANGED <<inputs, downstream, evidence, error, position_map,
                   snp_data, snps, tags, animals, tsv_report, text_report,
                   split_first, discordance, report_file>>

\* the classifier is run again on the same tables and sample id
Rerun ==
    /\ pc = "done"
    /\ run < MaxRuns
    /\ run' = run + 1
    /\ prev_tsv' = tsv_report
    /\ prev_text' = text_report
    /\ prev_error' = ""
    /\ pc' = "start"
    /\ error' = ""
    /\ position_map' = NoMap
    /\ snp_data' = <<>>
    /\ snps' = {}
    /\ tags' = {}
    /\ animals' = FALSE
    /\ tsv_report' = <<>>
    /\ text_report' = <<>>
    /\ sublin' = <<>>
    /\ prevlin' = <<>>
    /\ prevsub' = <<>>
    /\ split_first' = <<>>
    /\ discordance' = <<>>
    /\ UNCHANGED <<marker_file, annotation_file, sample_id, files,
                   downstream>>

\* the classifier is run again on the same variant rows in another order
RerunPermuted ==
    /\ pc \in {"done", "failed"}
    /\ run < MaxRuns
    /\ \E order \in Orders(DOMAIN annotation_file.rows) :
          annotation_file' =
              [annotation_file EXCEPT
                  !.rows = [i \in DOMAIN order |-> annotation_file.rows[order[i]]]]
    /\ run' = run + 1
    /\ prev_tsv' = tsv_report
    /\ prev_text' = text_report
    /\ prev_error' = error
    /\ pc' = "start"
    /\ error' = ""
    /\ position_map' = NoMap
    /\ snp_data' = <<>>
    /\ snps' = {}
    /\ tags' = {}
    /\ animals' = FALSE
    /\ tsv_report' = <<>>
    /\ text_report' = <<>>
    /\ sublin' = <<>>
    /\ prevlin' = <<>>
    /\ prevsub' = <<>>
    /\ split_first' = <<>>
    /\ discordance' = <<>>
    /\ UNCHANGED <<marker_file, sample_id, files, downstream>>

-----------------------------------------------------------------------------
(* The steps that read the classifier's two files *)

IsSpace(c) == c \in {" ", "\t", "\n"}

RECURSIVE LStrip(_)
LStrip(s) ==
    IF s # <<>> /\ IsSpace(Head(s)) THEN LStrip(Tail(s)) ELSE s

RECURSIVE RStrip(_)
RStrip(s) ==
    IF s # <<>> /\ IsSpace(s[Len(s)]) THEN RStrip(SubSeq(s, 1, Len(s) - 1))
    ELSE s

\* str.strip()
Strip(s) == RStrip(LStrip(s))

\* sub in s, for texts whose words are whole chunks
Contains(s, sub) ==
    \E i \in 1..(Len(s) - Len(sub) + 1) : SubSeq(s, i, i + Len(sub) - 1) = sub

\* index of the first blank of s, or Len(s) + 1
RECURSIVE FirstSpace(_, _)
FirstSpace(s, i) ==
    IF i > Len(s) THEN Len(s) + 1
    ELSE IF IsSpace(s[i]) THEN i
    ELSE FirstSpace(s, i + 1)

\* str.split(None, 1): the first word and, if there is one, the rest
SplitFirstWord(s) ==
    LET t == LStrip(s)
        k == FirstSpace(t, 1)
        rest == LStrip(SubSeq(t, k, Len(t)))
    IN  IF t = <<>> THEN <<>>
        ELSE IF rest = <<>> THEN <<SubSeq(t, 1, k - 1)>>
        ELSE <<SubSeq(t, 1, k - 1), rest>>

\* create_lineage_report.py lines 14-30: the body of the loop for one line;
\* acc is [lineage, lineage_name, err]
ReportStep(acc, raw) ==
    LET line == Strip(raw)
        parts == Split(line, ":")
    IN  IF acc.err # "" THEN acc
        ELSE IF Contains(line, NO_PRECISE)
        THEN [acc EXCEPT !.lineage = MIXED, !.lineage_name = MIXED]
        ELSE IF Contains(line, <<"Lineage", ":">>)
        THEN IF Len(parts) >= 3
             THEN IF SplitFirstWord(Strip(parts[2])) = <<>>
                  THEN [acc EXCEPT !.err = "IndexError"]
                  ELSE [acc EXCEPT
                           !.lineage = SplitFirstWord(Strip(parts[2]))[1],
                           !.lineage_name = Strip(parts[3])]
             ELSE IF Len(parts) = 2
             THEN LET lineage_parts == SplitFirstWord(Strip(parts[2]))
                  IN  IF Len(lineage_parts) >= 2
                      THEN [acc EXCEPT !.lineage = lineage_parts[1],
                                       !.lineage_name = lineage_parts[2]]
                      ELSE acc
             ELSE [acc EXCEPT !.err = "UnboundLocalError"]
        ELSE acc

\* create_lineage_report.py lines 11-30
RECURSIVE ReportLoop(_, _, _)
ReportLoop(acc, lines, i) ==
    IF i > Len(lines) THEN acc
    ELSE ReportLoop(ReportStep(acc, lines[i]), lines, i + 1)

KB_HEADER ==
    <<"Sample", " ", "ID", "\t", "Lineage", "\t", "Lineage", " ", "Name">>

\* create_lineage_report.py lines 7-35, run on <sample_id>_Lineage.txt
CreateLineageReport ==
    /\ pc = "done"
    /\ kb_report = <<>>
    /\ LET inputFile == sample_id \o <<"_", "Lineage", ".", "txt">>
           r == ReportLoop([lineage |-> <<>>, lineage_name |-> <<>>, err |-> ""],
                           lineage_file, 1)
           sample == Split(inputFile, "_")[1]
       IN  IF r.err # ""
           THEN Fail(r.err) /\ UNCHANGED kb_report
           ELSE /\ kb_report' =
                      <<KB_HEADER,
                        sample \o <<"\t">> \o r.lineage \o <<"\t">> \o
                            r.lineage_name>>
                /\ UNCHANGED <<pc, error>>
    /\ UNCHANGED <<inputs, files, evidence, position_map, snp_data, snps, tags,
                   animals, tsv_report, text_report, split_first, discordance,
                   mls_result>>

MIXED_UNDERSCORE == <<"mixed", "_", "lineage", "(", "s", ")">>
NoResult == <<"NoResult">>

\* report_lineage_mlstype.py lines 9-19: the value returned from the i-th
\* line on; none is TRUE when the loop ends without a return
RECURSIVE parse_lineage_mls(_, _, _)
parse_lineage_mls(lines, sid, i) ==
    IF i > Len(lines) THEN [none |-> TRUE, text |-> <<>>]
    ELSE LET parts == Split(Strip(lines[i]), "\t")
         IN  IF Len(parts) = 3 /\ parts[1] = sid
             THEN IF parts[3] = MIXED_UNDERSCORE
                  THEN [none |-> FALSE, text |-> NoResult]
                  ELSE [none |-> FALSE,
                        text |-> parts[3] \o <<" ", "(", "L">> \o parts[2]
                                     \o <<")">>]
             ELSE parse_lineage_mls(lines, sid, i + 1)

\* report_lineage_mlstype.py line 38, run on <sample_id>.lineage_report.txt
ReportLineageMls ==
    /\ pc = "done"
    /\ mls_result = <<>>
    /\ mls_result' = <<parse_lineage_mls(report_file, sample_id, 1)>>
    /\ UNCHANGED <<inputs, files, evidence, pc, error, position_map, snp_data,
                   snps, tags, animals, tsv_report, text_report, split_first,
                   discordance, kb_report>>

-----------------------------------------------------------------------------

Next ==
    \/ LoadTables
    \/ ScanTags
    \/ GetLineageDetail
    \/ Resolve
    \/ WriteReport
    \/ WriteLineage

NextRerun == Next \/ Rerun

Spec == Init /\ [][Next]_vars
SpecCols == InitCols /\ [][Next]_vars
SpecRerun == InitRerun /\ [][NextRerun]_vars
NextPermuted == Next \/ RerunPermuted
SpecPermuted == InitRerun /\ [][NextPermuted]_vars
NextPipeline == Next \/ CreateLineageReport \/ ReportLineageMls
SpecPipeline == InitPipeline /\ [][NextPipeline]_vars

-----------------------------------------------------------------------------
(* Vocabulary of the properties *)

VariantPositions ==
    {annotation_file.rows[i]["POS"] : i \in DOMAIN annotation_file.rows}
MarkerPositions ==
    {marker_file.rows[i]["Position"] : i \in DOMAIN marker_file.rows}
AnimalPositions == {p \in DOMAIN snp_tags : snp_tags[p] \in Range(animal_order)}
AnimalTagPresent == VariantPositions \cap AnimalPositions # {}
AnimalCodes == {animal_map[t][1] : t \in DOMAIN animal_map}

\* the resolver has produced its verdict
Resolved == pc \in {"resolved", "report_written", "done"}
\* the run has got to the resolver or has failed
Attempted == Resolved \/ pc = "failed"

MixedRow == <<sample_id, MIXED, MIXED>>
TribeRow(l) == <<sample_id, l, tribe_map[l]>>
LastLine == text_report[Len(text_report)]
InLog(line) == \E i \in DOMAIN text_report : text_report[i] = line

Levels(label) == Len(Split(label, DOT))
Top(label) == Split(label, DOT)[1]
TopTwo(label) == SubSeq(Split(label, DOT), 1, 2)

NoMatchNoTag ==
    /\ VariantPositions \cap MarkerPositions = {}
    /\ VariantPositions \cap DOMAIN snp_tags = {}

\* C2 as stated: no matching position and no special tag give the verdict
\* "No Informative SNPs detected", never "mixed lineage(s)"
C2_AsStated ==
    (Resolved /\ NoMatchNoTag)
        => tsv_report = <<TSV_HEADER, <<sample_id, NO_INFORMATIVE, NO_INFORMATIVE>>>>

\* C2 amended: no matching position and no special tag give the verdict
\* lineage 4 "Euro-American" (position 931123 is absent from the variant
\* table), never "mixed lineage(s)" and never "No Informative SNPs detected"
C2_NoMatchIsLineageFour ==
    (Attempted /\ NoMatchNoTag)
        => /\ pc # "failed"
           /\ tsv_report = <<TSV_HEADER, <<sample_id, <<"4">>, <<"Euro-American">>>>>>
           /\ tsv_report[2] # MixedRow
           /\ tsv_report[2][2] # NO_INFORMATIVE

C2_Witness ==
    /\ pc = "done"
    /\ NoMatchNoTag
    /\ annotation_file.rows # <<>>
    /\ tsv_report[2][2] = <<"4">>

\* C3: while an animal tag is present the verdict is "mixed lineage(s)" or
\* an animal strain, never a numbered lineage
C3_AnimalOverridesLineage ==
    (Resolved /\ AnimalTagPresent)
        => tsv_report[2][2] \in {MIXED} \cup AnimalCodes

\* C4: with the required columns present the resolver raises no exception and
\* tsv_report ends as the header row plus exactly one verdict row
C4_ResolverTotal ==
    /\ pc # "failed"
    /\ Resolved => Len(tsv_report) = 2 /\ tsv_report[1] = TSV_HEADER

\* C5: with two or more single-level labels, two that differ give "mixed
\* lineage(s)" and the closing log line "no concordance ..."; all identical
\* to L give the verdict L with name tribe_map[L]; the sublineage evidence
\* plays no part
C5_MultipleLineage ==
    (Attempted /\ Len(prevlin) >= 2)
        => IF \E i, j \in DOMAIN prevlin : prevlin[i] # prevlin[j]
           THEN /\ pc # "failed"
                /\ tsv_report = <<TSV_HEADER, MixedRow>>
                /\ LastLine = NO_CONCORDANCE
           ELSE prevlin[1] \in DOMAIN tribe_map
                   => /\ pc # "failed"
                      /\ tsv_report = <<TSV_HEADER, TribeRow(prevlin[1])>>

C5_Witness ==
    /\ pc = "done"
    /\ Len(prevlin) >= 2
    /\ prevlin[1] = prevlin[2]
    /\ prevsub # <<>>
    /\ Top(prevsub[1]) # prevlin[1]
    /\ tsv_report[2] = TribeRow(prevlin[1])

\* only labels of more than one level were matched
SublineageOnly ==
    /\ prevlin = <<>>
    /\ prevsub # <<>>
    /\ \A i \in DOMAIN prevsub : Levels(prevsub[i]) > 1

\* C6: with sublineage labels only, the discordance flag is set exactly when
\* some label differs from the deepest candidate in its first or second
\* component, it is the same whichever label is taken as the candidate, a
\* discordant run gives "mixed lineage(s)" and a concordant run without
\* animal tag gives the candidate's top-level component and its tribe_map name
C6_SublineageDiscordance ==
    (Attempted /\ SublineageOnly)
        => LET d == \E i \in DOMAIN prevsub : TopTwo(prevsub[i]) # TopTwo(sublin)
           IN  /\ sublin \in Range(prevsub)
               /\ \A i \in DOMAIN prevsub : Len(prevsub[i]) <= Len(sublin)
               /\ discordance = <<d>>
               /\ \A i \in DOMAIN prevsub :
                     DiscordanceLoop(Split(prevsub[i], DOT), prevsub, 1)
                        = (IF d THEN "True" ELSE "False")
               /\ d => pc # "failed" /\ tsv_report = <<TSV_HEADER, MixedRow>>
               /\ (~d /\ ~AnimalTagPresent /\ Top(sublin) \in DOMAIN tribe_map)
                     => /\ pc # "failed"
                        /\ tsv_report = <<TSV_HEADER, TribeRow(Top(sublin))>>

C6_Witness ==
    /\ pc = "done"
    /\ SublineageOnly
    /\ Len(prevsub) >= 2
    /\ prevsub[1] # prevsub[2]
    /\ discordance = <<FALSE>>
    /\ ~AnimalTagPresent
    /\ tsv_report[2] = TribeRow(Top(sublin))

\* C7: without single-level evidence and with an animal tag, sublineage
\* evidence or the absence of position 931123 gives "mixed lineage(s)"; an
\* animal-strain verdict comes only from runs without any matched marker
C7_AnimalNeedsNoEvidence ==
    /\ (Resolved /\ AnimalTagPresent /\ prevlin = <<>>
          /\ (\A i \in DOMAIN prevsub : Levels(prevsub[i]) > 1)
          /\ (prevsub # <<>> \/ P931123 \notin VariantPositions))
          => tsv_report[2] = MixedRow
    /\ (Resolved /\ tsv_report[2][2] \in AnimalCodes)
          => prevlin = <<>> /\ prevsub = <<>>

\* C8: no evidence, position 931123 absent and no animal tag give the row
\* (sample_id, 4, Euro-American), the log line "Absence of SNP 931123 ..."
\* before the closing line "Lineage: 4 Euro-American", and the line "Absence
\* of SNP 1759252 ..." exactly when position 1759252 is absent as well
C8_AbsenceIsLineageFour ==
    (Attempted /\ prevlin = <<>> /\ prevsub = <<>>
        /\ P931123 \notin VariantPositions /\ ~AnimalTagPresent)
        => /\ pc # "failed"
           /\ tsv_report = <<TSV_HEADER, <<sample_id, <<"4">>, <<"Euro-American">>>>>>
           /\ \E i \in 1..(Len(text_report) - 1) : text_report[i] = ABSENCE_931123
           /\ LastLine = LINEAGE_4
           /\ InLog(ABSENCE_1759252) <=> P1759252 \notin VariantPositions

C8_Witness ==
    /\ pc = "done"
    /\ prevlin = <<>> /\ prevsub = <<>>
    /\ P931123 \notin VariantPositions
    /\ P1759252 \in VariantPositions
    /\ position_map # NoMap
    /\ ~AnimalTagPresent
    /\ ~InLog(ABSENCE_1759252)
    /\ LastLine = LINEAGE_4

MissingColumn ==
    marker_file.cols # MarkerCols \/ annotation_file.cols # VariantCols

\* C9: a table that lacks a required column makes the run fail, whatever the
\* tables hold, and a run ends with both output files written or with none
C9_MissingColumnFails ==
    /\ MissingColumn => ~Resolved
    /\ pc = "failed" => written = {}
    /\ pc = "done" => written = {"lineage_report.txt", "Lineage.txt"}

\* C10: a second run on the same tables and sample id gives the same
\* tsv_report and text_report as the first, whatever the order in which the
\* set of observed positions is iterated
C10_Deterministic ==
    run > 1 => /\ pc # "failed"
               /\ Resolved => tsv_report = prev_tsv /\ text_report = prev_text

C10_Witness ==
    /\ run = 2
    /\ pc = "done"
    /\ Cardinality(tags) >= 2
    /\ tsv_report = prev_tsv
    /\ text_report = prev_text

AnimalRow(t) == <<sample_id, animal_map[t][1], animal_map[t][2]>>

\* C11: no evidence and position 931123 present give the first animal tag
\* present in the order BCG, BOV, ORYX, CAP, and "No Informative SNPs
\* detected" exactly when none of the four is present
C11_AnimalPriority ==
    (Attempted /\ prevlin = <<>> /\ prevsub = <<>>
        /\ P931123 \in VariantPositions)
        => /\ pc # "failed"
           /\ Len(tsv_report) = 2
           /\ tsv_report[2] =
                 (IF P8624 \in VariantPositions THEN AnimalRow("BCG")
                  ELSE IF P2289073 \in VariantPositions THEN AnimalRow("BOV")
                  ELSE IF P2726378 \in VariantPositions THEN AnimalRow("ORYX")
                  ELSE IF P2831482 \in VariantPositions THEN AnimalRow("CAP")
                  ELSE <<sample_id, NO_INFORMATIVE, NO_INFORMATIVE>>)
           /\ tsv_report[2][2] = NO_INFORMATIVE <=> ~AnimalTagPresent

C11_Witness ==
    /\ pc = "done"
    /\ prevlin = <<>> /\ prevsub = <<>>
    /\ position_map # NoMap
    /\ {P931123, P2289073, P2831482} \subseteq VariantPositions
    /\ tsv_report[2] = AnimalRow("BOV")

\* _get_lineage_detail has returned
Extracted == pc = "extracted" \/ Attempted

\* the i-th variant row is at a position of the marker map with its allele
RowMatches(i) ==
    LET snp == annotation_file.rows[i]
    IN  /\ snp["POS"] \in DOMAIN position_map
        /\ position_map[snp["POS"]]["Alt"] = snp["ALT"]
MatchedRows == {i \in DOMAIN annotation_file.rows : RowMatches(i)}
RowLabel(i) == position_map[annotation_file.rows[i]["POS"]]["##Lineage"]

\* a log line "SNP <pos> suggests lineage: ..." or "... sub-lineage: ..."
IsEvidenceLine(line) ==
    \E k \in 1..(Len(line) - 1) :
        line[k] \in {"lineage", "sub-lineage"} /\ line[k + 1] = ":"
\* the line is an evidence line for position pos and label lab
IsEvidenceLineFor(line, pos, lab) ==
    \E w \in {"lineage", "sub-lineage"} :
        line = <<"SNP", " ">> \o pos \o <<" ", "suggests", " ", w, ":", " ">> \o lab

\* C12: a variant row adds a label to prevlin or prevsub and a line "SNP
\* <pos> suggests ..." to the log exactly when its position is a key of the
\* marker map and its ALT equals that marker's Alt
C12_EvidenceOnlyOnMatch ==
    Extracted
        => /\ Len(prevlin) + Len(prevsub) = Cardinality(MatchedRows)
           /\ \A i \in MatchedRows :
                 /\ RowLabel(i) \in Range(prevlin) \cup Range(prevsub)
                 /\ \E k \in DOMAIN text_report :
                       IsEvidenceLineFor(text_report[k],
                           annotation_file.rows[i]["POS"], RowLabel(i))
           /\ Cardinality({k \in DOMAIN text_report : IsEvidenceLine(text_report[k])})
                 = Cardinality(MatchedRows)
           /\ \A k \in DOMAIN text_report :
                 IsEvidenceLine(text_report[k])
                    => \E i \in MatchedRows :
                          IsEvidenceLineFor(text_report[k],
                              annotation_file.rows[i]["POS"], RowLabel(i))

C12_Witness ==
    /\ pc = "done"
    /\ Cardinality(MatchedRows) = 1
    /\ \E i \in DOMAIN annotation_file.rows :
          /\ annotation_file.rows[i]["POS"] \in DOMAIN position_map
          /\ ~RowMatches(i)
    /\ \E i \in DOMAIN annotation_file.rows :
          annotation_file.rows[i]["POS"] \notin DOMAIN position_map
    /\ Len(prevlin) = 1

\* C13: a matched label is lineage evidence exactly when it has one
\* hierarchy level (no dot) and sublineage evidence exactly when it has more
C13_ClassifiedByLevels ==
    Extracted
        => /\ \A i \in DOMAIN prevlin : Levels(prevlin[i]) = 1
           /\ \A i \in DOMAIN prevsub : Levels(prevsub[i]) > 1

\* the last row of the marker table at position p
LastRow(p) ==
    LET rows == marker_file.rows
    IN  rows[CHOOSE i \in DOMAIN rows :
                /\ rows[i]["Position"] = p
                /\ \A j \in DOMAIN rows : j > i => rows[j]["Position"] # p]
\* the variant rows that match the last marker row of their position
MatchLastRow ==
    {i \in DOMAIN annotation_file.rows :
        /\ annotation_file.rows[i]["POS"] \in MarkerPositions
        /\ LastRow(annotation_file.rows[i]["POS"])["Alt"]
              = annotation_file.rows[i]["ALT"]}
Occurrences(seq, x) == Cardinality({k \in DOMAIN seq : seq[k] = x})

\* C14: the marker map holds, for every Position of the marker table, the
\* last row of that Position only, and the labels of the evidence are the
\* labels of the last rows whose allele the variant rows carry
C14_LastRowWins ==
    /\ pc # "start"
          => /\ DOMAIN position_map = MarkerPositions
             /\ \A p \in MarkerPositions : position_map[p] = LastRow(p)
    /\ Extracted
          => \A l \in {marker_file.rows[i]["##Lineage"] : i \in DOMAIN marker_file.rows} :
                Occurrences(prevlin \o prevsub, l)
                   = Cardinality({i \in MatchLastRow :
                        LastRow(annotation_file.rows[i]["POS"])["##Lineage"] = l})

C14_Witness ==
    /\ pc = "done"
    /\ Len(marker_file.rows) > Cardinality(MarkerPositions)
    /\ annotation_file.rows = <<Variant(P100, A), Variant(P100, G)>>
    /\ prevlin = << <<"2">> >>
    /\ prevsub = <<>>

\* the log line of an animal tag at position p, if p is in the variant table
TagLine(p, species) ==
    IF p \in VariantPositions
    THEN << <<"SNP", " ">> \o p \o <<" ", "suggests", " ">> \o species >>
    ELSE <<>>
ExpectedTagLines ==
    TagLine(P8624, <<"M", ".", " ", "bovis-BCG">>) \o
    TagLine(P2289073, <<"M", ".", " ", "bovis">>) \o
    TagLine(P2726378, <<"M", ".", " ", "orygis">>) \o
    TagLine(P2831482, <<"M", ".", " ", "caprae">>)
\* the k-th matching row of the variant table
NthMatched(k) ==
    CHOOSE i \in MatchedRows : Cardinality({j \in MatchedRows : j <= i}) = k
IsVerdictStatement(line) ==
    \/ line \in {NO_PRECISE, NO_CONCORDANCE, NO_INFORMATIVE}
    \/ Len(line) > 3 /\ SubSeq(line, 1, 3) = <<"Lineage", ":", " ">>

\* C15: the log of a completed run is the lines of the animal tags present
\* in the order BCG, BOV, ORYX, CAP, then one line per matched marker in the
\* order of the variant rows, then the statements of the reporting branch,
\* the last of which is the verdict statement; no evidence line follows it
C15_LogOrder ==
    Resolved
        => LET na == Len(ExpectedTagLines)
               ne == Cardinality(MatchedRows)
           IN  /\ Len(text_report) > na + ne
               /\ SubSeq(text_report, 1, na) = ExpectedTagLines
               /\ \A k \in 1..ne :
                     IsEvidenceLineFor(text_report[na + k],
                         annotation_file.rows[NthMatched(k)]["POS"],
                         RowLabel(NthMatched(k)))
               /\ \A k \in (na + ne + 1)..Len(text_report) :
                     /\ ~IsEvidenceLine(text_report[k])
                     /\ text_report[k][1] # "SNP"
                     /\ IsVerdictStatement(text_report[k]) <=> k = Len(text_report)
               /\ pc = "done" => lineage_file = text_report

C15_Witness ==
    /\ pc = "done"
    /\ Len(ExpectedTagLines) = 2
    /\ MatchedRows = {1}
    /\ Len(text_report) = 4


\* a label the classifier files under its hierarchy level: a label of more
\* than one character has a dot
WellFormedLabel(l) == Len(l) > 1 => DOT \in Range(l)
MatchedLabels == {RowLabel(i) : i \in MatchedRows}

\* C16: when every label matched by the variant rows is well-formed, a run
\* on the same variant rows in another order ends as the previous run did:
\* with the same verdict row, or with the same exception
C16_OrderIndependent ==
    (run > 1 /\ Attempted /\ \A l \in MatchedLabels : WellFormedLabel(l))
        => IF pc = "failed" THEN prev_error = error
           ELSE prev_error = "" /\ prev_tsv = tsv_report

\* the rows 400 and 300 were read in that order by the previous run and in
\* the other order by this one: the candidate was 4.3.2 and is now 4.3.1
C16_Witness ==
    /\ run > 1
    /\ pc = "done"
    /\ prevsub = << <<"4", ".", "3", ".", "1">>, <<"4", ".", "3", ".", "2">> >>
    /\ sublin = <<"4", ".", "3", ".", "1">>
    /\ IsEvidenceLineFor(prev_text[1], P400, <<"4", ".", "3", ".", "2">>)
    /\ prev_text # text_report
    /\ prev_tsv = tsv_report
    /\ Len(tsv_report) = 2

\* the cells of the verdict row as the classifier wrote them to its report
WrittenVerdict == Split(report_file[2], "\t")

\* C17: the Lineage and Lineage Name cells that create_lineage_report derives
\* from the classifier's log are those of the verdict row the classifier wrote
C17_ReportAgrees ==
    kb_report # <<>>
        => LET row == Split(kb_report[2], "\t")
           IN  /\ Len(row) = 3
               /\ row[2] = WrittenVerdict[2]
               /\ row[3] = WrittenVerdict[3]

\* C18: parse_lineage of report_lineage_mlstype returns NoResult for the
\* mixed verdict row of the sample and "<name> (L<code>)" for every other
\* verdict row, and never answers from the header row
C18_MlsLineage ==
    mls_result # <<>>
        => /\ ~mls_result[1].none
           /\ mls_result[1].text =
                  IF tsv_report[2] = MixedRow THEN NoResult
                  ELSE tsv_report[2][3] \o <<" ", "(", "L">> \o tsv_report[2][2]
                           \o <<")">>


====
